---- MODULE Spec2Model ----
(***************************************************************************)
(* Model of the backtesting engine of AI_agent_hedge_fund.                 *)
(*                                                                         *)
(* Part 1: the portfolio ledger of src/backtester.py (Backtester.__init__  *)
(* and Backtester.execute_trade).                                          *)
(*                                                                         *)
(* Numbers.  Quantities and share counts are Python ints.  Prices and the  *)
(* initial capital are drawn from the naturals (money in whole units), so  *)
(* cash stays an integer.  The average cost and the realized gains are     *)
(* results of a true division and are kept as exact fractions              *)
(* [num, den] in lowest terms with den > 0; IEEE rounding of the Python    *)
(* floats is not modelled.                                                 *)
(*                                                                         *)
(* Part 2: the simulation loop and the performance computation of          *)
(* src/backtester.py (fetch_price_data, calculate_portfolio_value,         *)
(* run_backtest, _compute_performance_metrics).  Dates are day numbers;    *)
(* day 1 is a Wednesday.                                                   *)
(*                                                                         *)
(* Part 3: the risk manager of src/agents/risk_manager.py, as functions    *)
(* of what the price client returns.                                       *)
(*                                                                         *)
(* Part 4: the shared price cache of src/data/cache.py and                 *)
(* APIClient.get_prices of src/data/api_client.py, used by two threads.    *)
(***************************************************************************)
EXTENDS Integers, Sequences, FiniteSets, TLC

\* ---------------------------------------------------------------- bounds
\* initial_capital handed to Backtester.__init__ (a positive amount).
InitialCapital == 3
\* Largest quantity and largest price handed to execute_trade.
MaxQty == 2
MaxPrice == 1
\* Number of execute_trade calls explored.
MaxCalls == 3
\* Largest portfolio value and longest valuation series handed to the
\* performance computation on its own.
MaxValue == 3
MaxSnapshots == 4
\* Last calendar day a backtest range may reach.
MaxDay == 5

\* ------------------------------------------------------------ input sets
\* self.tickers: the tickers the ledger was constructed with.
Tickers == {"A", "B"}
\* A ticker the ledger was not constructed with.
UnknownTicker == "Z"
AnyTicker == Tickers \cup {UnknownTicker}
\* "hold" stands for every action string that is neither "buy" nor "sell".
Actions == {"buy", "sell", "hold"}
Quantities == (-1)..MaxQty
Prices == 0..MaxPrice

\* ------------------------------------------------------- exact fractions
Abs(i) == IF i < 0 THEN -i ELSE i

RECURSIVE GCD(_, _)
GCD(a, b) == IF b = 0 THEN a ELSE GCD(b, a % b)

\* n/d in lowest terms, d > 0.
Frac(n, d) ==
    LET g == GCD(Abs(n), d)
    IN  IF n = 0 THEN [num |-> 0, den |-> 1]
        ELSE [num |-> n \div g, den |-> d \div g]

FromInt(i) == [num |-> i, den |-> 1]
Zero == FromInt(0)
FAdd(x, y) == Frac(x.num * y.den + y.num * x.den, x.den * y.den)
FSub(x, y) == Frac(x.num * y.den - y.num * x.den, x.den * y.den)
FMulInt(x, k) == Frac(x.num * k, x.den)
\* x / k for an integer k > 0.
FDivInt(x, k) == Frac(x.num, x.den * k)

\* ----------------------------------------------------------------- state
VARIABLES
    portfolio,        \* self.portfolio: cash, positions, realized_gains
    initial_capital,  \* self.initial_capital
    raised,           \* exception the last call ended with ("none" if it returned)
    last,             \* the last execute_trade call: arguments and ledger before it
    prev,             \* the call before the last one, kept when it was a buy
                      \* of a positive quantity on a ticker of the ledger
    ncalls,           \* number of execute_trade calls made so far
    start_date,       \* self.start_date
    end_date,         \* self.end_date
    pc,               \* where run_backtest (or the performance computation) stands
    current_date,     \* run_backtest: the loop variable current_date
    price_data,       \* per ticker, what the provider's series for
                      \* [start_date, end_date] holds up to current_date: the
                      \* bar dated current_date and the most recent bar dated
                      \* before it (bars after current_date are never read by
                      \* the loop and are not chosen yet)
    portfolio_values, \* self.portfolio_values
    performance_metrics, \* run_backtest: the dict it returns
    computed,         \* _compute_performance_metrics: its locals sharpe_ratio
                      \* and max_drawdown
    outcome,          \* how the call ended: "none", "returned" or "KeyError"
    day,              \* the last simulated day: what the loop body did on it
    price_cache,      \* DataCache._price_cache: a dict from ticker to list of bars
    lock,             \* DataCache._lock: the thread that holds it, or NoThread
    threads,          \* per thread: the cache or client call it is in, where
                      \* it stands in it, its arguments, locals and result
    cache_log,        \* what the calls on the cache did so far
    price_series,     \* RiskManager: what api_client.get_prices returns for
                      \* the ticker and for the market index
    risk_call         \* the last RiskManager call: its name and its result

ledgerVars == <<portfolio, initial_capital, raised, last, prev, ncalls>>

runVars == <<start_date, end_date, pc, current_date, price_data, portfolio_values,
             performance_metrics, computed, outcome, day>>

cacheVars == <<price_cache, lock, threads, cache_log>>

riskVars == <<price_series, risk_call>>

vars == <<portfolio, initial_capital, raised, last, prev, ncalls,
          start_date, end_date, pc, current_date, price_data, portfolio_values,
          performance_metrics, computed, outcome, day,
          price_cache, lock, threads, cache_log, price_series, risk_call>>

NoCall == [made |-> FALSE]

Call(ticker, action, quantity, price, before) ==
    [made |-> TRUE, ticker |-> ticker, action |-> action,
     quantity |-> quantity, price |-> price, before |-> before]

\* The calls the two-call properties (buy then sell, buy then buy) start with.
IsTrackedBuy(c) ==
    /\ c.made
    /\ c.action = "buy"
    /\ c.quantity > 0
    /\ c.ticker \in Tickers

NoBar == [found |-> FALSE]

NoPriceData == [today |-> NoBar, before |-> NoBar]

NoDay == [simulated |-> FALSE]

\* performance_metrics = {"sharpe_ratio": None, "max_drawdown": None}
None == [none |-> TRUE]

NoMetrics == [sharpe_ratio |-> None, max_drawdown |-> None]

\* The threads that use the shared cache.
Threads == {"t1", "t2"}

NoThread == "none"

\* A thread outside any call.
IdleThread == [op |-> "none", pc |-> "idle"]

\* No call on the cache has been made.
NoCacheLog == [calls |-> 0, written |-> {}, direct |-> FALSE]

\* The cache as DataCache.__init__ leaves it, with no thread in a call.
CacheIdle ==
    /\ price_cache = [t \in {} |-> << >>]
    /\ lock = NoThread
    /\ threads = [th \in Threads |-> IdleThread]
    /\ cache_log = NoCacheLog

NoRiskCall == [op |-> "none"]

\* No RiskManager call has been made and no price series is set up.
RiskIdle ==
    /\ price_series = [stock |-> None, market |-> None]
    /\ risk_call = NoRiskCall

\* No backtest is running: the ledger is driven by direct execute_trade calls.
RunIdle ==
    /\ start_date = 1
    /\ end_date = 1
    /\ pc = "idle"
    /\ current_date = 0
    /\ price_data = [t \in Tickers |-> NoPriceData]
    /\ portfolio_values = << >>
    /\ performance_metrics = NoMetrics
    /\ computed = NoMetrics
    /\ outcome = "none"
    /\ day = NoDay

\* ------------------------------------------------- Backtester.__init__
NewPortfolio(capital) ==
    [cash |-> capital,
     positions |-> [t \in Tickers |-> [shares |-> 0, avg_cost |-> Zero]],
     realized_gains |-> [t \in Tickers |-> Zero]]

LedgerInit ==
    /\ initial_capital = InitialCapital
    /\ portfolio = NewPortfolio(initial_capital)
    /\ raised = "none"
    /\ last = NoCall
    /\ prev = NoCall
    /\ ncalls = 0
    /\ RunIdle
    /\ CacheIdle
    /\ RiskIdle

\* ------------------------------------------- Backtester.execute_trade
\* Variant: only a negative quantity returns early.
EarlyReturn_NegativeOnly(quantity) == quantity < 0

\* if quantity <= 0: return
EarlyReturn(quantity) == quantity <= 0

\* position = self.portfolio["positions"][ticker] raises KeyError for a
\* ticker that has no position.
HasPosition(pf, ticker) == ticker \in DOMAIN pf.positions

IsBuy(action) == action = "buy"

\* Variant: every action that is not a buy is taken for a sell.
IsSell_AnyOther(action) == action # "buy"

IsSell(action) == action = "sell"

\* Variant: the cost of one share instead of the cost of the order.
TotalCost_OneShare(quantity, price) == price

\* total_cost = quantity * price
TotalCost(quantity, price) == quantity * price

\* Variant: the cash check is dropped.
BuyAccepted_NoCheck(cash, total_cost) == TRUE

\* Variant: any positive cash balance is taken to cover the order.
BuyAccepted_AnyCash(cash, total_cost) == cash > 0

\* if self.portfolio["cash"] >= total_cost
BuyAccepted(cash, total_cost) == cash >= total_cost

\* Variant: the cost of the shares already held is not weighted by their count.
NewAvgCost_Unweighted(shares, avg_cost, total_cost, new_total_shares) ==
    IF new_total_shares > 0
    THEN FDivInt(FAdd(avg_cost, FromInt(total_cost)), new_total_shares)
    ELSE Zero

\* new_avg_cost = ((shares * avg_cost) + total_cost) / new_total_shares
\*                if new_total_shares > 0 else 0
NewAvgCost(shares, avg_cost, total_cost, new_total_shares) ==
    IF new_total_shares > 0
    THEN FDivInt(FAdd(FMulInt(avg_cost, shares), FromInt(total_cost)),
                 new_total_shares)
    ELSE Zero

\* Variant: the share check is dropped.
SellAccepted_NoCheck(shares, quantity) == TRUE

\* Variant: a sell is accepted whenever any share is held.
SellAccepted_AnyShares(shares, quantity) == shares > 0

\* if position["shares"] >= quantity
SellAccepted(shares, quantity) == shares >= quantity

\* Variant: the proceeds of one share instead of the proceeds of the order.
TotalSaleValue_OneShare(quantity, price) == price

\* total_sale_value = quantity * price
TotalSaleValue(quantity, price) == quantity * price

\* Variant: the gain is the sale value, the cost basis is not subtracted.
RealizedGain_NoBasis(price, avg_cost, quantity) ==
    FMulInt(FromInt(price), quantity)

\* realized_gain = (price - position["avg_cost"]) * quantity
RealizedGain(price, avg_cost, quantity) ==
    FMulInt(FSub(FromInt(price), avg_cost), quantity)

\* Variant: a buy also empties the positions of the other tickers.
Buy_ClearsOthers(pf, ticker, quantity, price) ==
    [cash |-> pf.cash - TotalCost(quantity, price),
     positions |->
         [t \in Tickers |->
             IF t = ticker
             THEN [shares |-> pf.positions[t].shares + quantity,
                   avg_cost |->
                       NewAvgCost(pf.positions[t].shares,
                                  pf.positions[t].avg_cost,
                                  TotalCost(quantity, price),
                                  pf.positions[t].shares + quantity)]
             ELSE [shares |-> 0, avg_cost |-> Zero]],
     realized_gains |-> pf.realized_gains]

\* The accepted buy branch: shares, avg_cost and cash are assigned.
Buy(pf, ticker, quantity, price) ==
    LET position == pf.positions[ticker]
        total_cost == TotalCost(quantity, price)
        new_total_shares == position.shares + quantity
        new_avg_cost == NewAvgCost(position.shares, position.avg_cost,
                                   total_cost, new_total_shares)
    IN  [pf EXCEPT !.positions[ticker] =
                       [shares |-> new_total_shares, avg_cost |-> new_avg_cost],
                   !.cash = @ - total_cost]

\* The accepted sell branch: shares, cash and realized_gains are assigned;
\* avg_cost is not.
Sell(pf, ticker, quantity, price) ==
    LET position == pf.positions[ticker]
        total_sale_value == TotalSaleValue(quantity, price)
        realized_gain == RealizedGain(price, position.avg_cost, quantity)
    IN  [pf EXCEPT !.positions[ticker].shares = @ - quantity,
                   !.cash = @ + total_sale_value,
                   !.realized_gains[ticker] = FAdd(@, realized_gain)]

\* The ledger execute_trade leaves behind.
TradeResult(pf, ticker, action, quantity, price) ==
    IF EarlyReturn(quantity) THEN pf
    ELSE IF ~HasPosition(pf, ticker) THEN pf
    ELSE IF IsBuy(action)
         THEN IF BuyAccepted(pf.cash, TotalCost(quantity, price))
              THEN Buy(pf, ticker, quantity, price)
              ELSE pf
    ELSE IF IsSell(action)
         THEN IF SellAccepted(pf.positions[ticker].shares, quantity)
              THEN Sell(pf, ticker, quantity, price)
              ELSE pf
    ELSE pf

\* The exception execute_trade ends with.
TradeRaises(pf, ticker, quantity) ==
    IF ~EarlyReturn(quantity) /\ ~HasPosition(pf, ticker)
    THEN "KeyError"
    ELSE "none"

execute_trade(ticker, action, quantity, price) ==
    /\ ncalls < MaxCalls
    /\ portfolio' = TradeResult(portfolio, ticker, action, quantity, price)
    /\ raised' = TradeRaises(portfolio, ticker, quantity)
    /\ last' = Call(ticker, action, quantity, price, portfolio)
    /\ prev' = IF IsTrackedBuy(last) THEN last ELSE NoCall
    /\ ncalls' = ncalls + 1
    /\ UNCHANGED initial_capital
    /\ UNCHANGED runVars
    /\ UNCHANGED <<cacheVars, riskVars>>

LedgerNext ==
    \E ticker \in AnyTicker, action \in Actions,
       quantity \in Quantities, price \in Prices :
        execute_trade(ticker, action, quantity, price)

LedgerSpec == LedgerInit /\ [][LedgerNext]_vars

\* ============================================================ properties
\* What the last two calls were, read off the recorded arguments and the
\* ledger recorded before each call.
LastOnLedger == last.made /\ last.ticker \in Tickers

LastPosBefore == last.before.positions[last.ticker]

LastPosNow == portfolio.positions[last.ticker]

\* A buy of a positive quantity on a ledger ticker that the cash covers.
LastIsCoveredBuy ==
    /\ LastOnLedger
    /\ last.action = "buy"
    /\ last.quantity > 0
    /\ last.before.cash >= last.quantity * last.price

\* A sell of a positive quantity on a ledger ticker that the shares cover.
LastIsCoveredSell ==
    /\ LastOnLedger
    /\ last.action = "sell"
    /\ last.quantity > 0
    /\ LastPosBefore.shares >= last.quantity

PrevIsCoveredBuy ==
    /\ prev.made
    /\ prev.before.cash >= prev.quantity * prev.price

\* C1: after every execute_trade call (any ticker, action, quantity and
\* non-negative price) on a ledger created with a positive capital, cash >= 0.
C1_CashNeverNegative == portfolio.cash >= 0

\* A buy has just spent the whole cash balance.
C1_Witness ==
    /\ LastIsCoveredBuy
    /\ last.before.cash > 0
    /\ portfolio.cash = 0

\* C2: in every reachable ledger state every position's share count is a
\* non-negative integer.
C2_SharesNonNegative ==
    \A t \in Tickers : portfolio.positions[t].shares \in Nat

\* A sell has just emptied a position.
C2_Witness ==
    /\ LastIsCoveredSell
    /\ LastPosBefore.shares > 0
    /\ LastPosNow.shares = 0

\* C3: a sell of more shares than the position holds leaves cash, every
\* position and every realized gain as they were before the call.
C3_OversellRejected ==
    (/\ LastOnLedger
     /\ last.action = "sell"
     /\ LastPosBefore.shares < last.quantity)
    => portfolio = last.before

\* A sell of more shares than a non-empty position holds has just been made.
C3_Witness ==
    /\ LastOnLedger
    /\ last.action = "sell"
    /\ LastPosBefore.shares > 0
    /\ LastPosBefore.shares < last.quantity
    /\ portfolio = last.before

\* C4: a buy on a ledger ticker whose cost exceeds the cash leaves cash,
\* every position and every realized gain as they were before the call, and
\* the call returns without raising.
C4_UncoveredBuyRejected ==
    (/\ LastOnLedger
     /\ last.action = "buy"
     /\ last.before.cash < last.quantity * last.price)
    => (portfolio = last.before /\ raised = "none")

\* A buy costing more than the remaining (positive) cash has just been made.
C4_Witness ==
    /\ LastOnLedger
    /\ last.action = "buy"
    /\ last.before.cash > 0
    /\ last.before.cash < last.quantity * last.price
    /\ portfolio = last.before
    /\ raised = "none"

\* The last two calls are a covered buy and then a sell of the same quantity
\* at the same price on the same ticker.
RoundTrip ==
    /\ PrevIsCoveredBuy
    /\ last.made
    /\ last.action = "sell"
    /\ last.ticker = prev.ticker
    /\ last.quantity = prev.quantity
    /\ last.price = prev.price

PrevPosBefore == prev.before.positions[prev.ticker]

\* avg = (shares * old_avg + quantity * price) / (shares + quantity), with
\* the fractions cross-multiplied.
IsWeightedAverage(avg, shares, old_avg, quantity, price) ==
    avg.num * (shares + quantity) * old_avg.den
        = (shares * old_avg.num + quantity * price * old_avg.den) * avg.den

\* C5 (as stated): a covered buy immediately followed by a sell of the same
\* quantity at the same price on the same ticker leaves the position's
\* shares, its average cost and the cash equal to their values before the buy.
C5_RoundTripRestoresAll ==
    RoundTrip =>
        /\ LastPosNow.shares = PrevPosBefore.shares
        /\ LastPosNow.avg_cost = PrevPosBefore.avg_cost
        /\ portfolio.cash = prev.before.cash

\* C5 (amended): the round trip leaves the position's shares and the cash
\* equal to their values before the buy; the average cost is the weighted
\* average the buy set, (s*a + q*p)/(s+q) for s shares held at average cost a
\* before the buy, which equals a exactly when p = a.
C5_RoundTripRestoresSharesAndCash ==
    RoundTrip =>
        /\ LastPosNow.shares = PrevPosBefore.shares
        /\ portfolio.cash = prev.before.cash
        /\ IsWeightedAverage(LastPosNow.avg_cost, PrevPosBefore.shares,
                             PrevPosBefore.avg_cost, prev.quantity, prev.price)
        /\ (LastPosNow.avg_cost = PrevPosBefore.avg_cost)
               <=> (prev.price * PrevPosBefore.avg_cost.den
                        = PrevPosBefore.avg_cost.num)

\* A round trip on a position that held shares, at a price other than its
\* average cost, has just been completed.
C5_Witness ==
    /\ RoundTrip
    /\ PrevPosBefore.shares > 0
    /\ LastPosNow.shares = PrevPosBefore.shares
    /\ LastPosNow.avg_cost # PrevPosBefore.avg_cost

\* C6: every accepted buy of q at p sets shares to old_shares + q and the
\* average cost to (old_shares*old_avg_cost + q*p)/(old_shares + q); after two
\* accepted buys q1@p1 then q2@p2 on a position that held no shares, shares
\* are q1+q2 and the average cost is (q1*p1 + q2*p2)/(q1+q2).
C6_WeightedAverageCost ==
    /\ LastIsCoveredBuy =>
        /\ LastPosNow.shares = LastPosBefore.shares + last.quantity
        /\ IsWeightedAverage(LastPosNow.avg_cost, LastPosBefore.shares,
                             LastPosBefore.avg_cost, last.quantity, last.price)
    /\ (/\ PrevIsCoveredBuy
        /\ PrevPosBefore.shares = 0
        /\ LastIsCoveredBuy
        /\ last.ticker = prev.ticker) =>
        /\ LastPosNow.shares = prev.quantity + last.quantity
        /\ LastPosNow.avg_cost.num * (prev.quantity + last.quantity)
             = (prev.quantity * prev.price + last.quantity * last.price)
                   * LastPosNow.avg_cost.den

\* Two buys at different prices on a position that held no shares have just
\* been accepted.
C6_Witness ==
    /\ PrevIsCoveredBuy
    /\ PrevPosBefore.shares = 0
    /\ LastIsCoveredBuy
    /\ last.ticker = prev.ticker
    /\ last.price # prev.price
    /\ LastPosNow.avg_cost.den > 1

\* C7: an accepted buy of q at p decreases cash by exactly q*p and increases
\* the ticker's shares by exactly q; an accepted sell of q at p increases cash
\* by exactly q*p and decreases the ticker's shares by exactly q.
C7_ExactCashAndShares ==
    /\ LastIsCoveredBuy =>
        /\ portfolio.cash = last.before.cash - last.quantity * last.price
        /\ LastPosNow.shares = LastPosBefore.shares + last.quantity
    /\ LastIsCoveredSell =>
        /\ portfolio.cash = last.before.cash + last.quantity * last.price
        /\ LastPosNow.shares = LastPosBefore.shares - last.quantity

\* A buy of several shares at a positive price and then a sell of several
\* shares at a positive price have just been accepted.
C7_Witness ==
    /\ PrevIsCoveredBuy
    /\ prev.quantity > 1
    /\ prev.price > 0
    /\ LastIsCoveredSell
    /\ last.quantity > 1
    /\ last.price > 0
    /\ portfolio.cash > last.before.cash

\* now - before = (price - avg_cost) * quantity, cross-multiplied.
GainAdded(now, before, price, avg_cost, quantity) ==
    (now.num * before.den - before.num * now.den) * avg_cost.den
        = (price * avg_cost.den - avg_cost.num) * quantity
              * now.den * before.den

\* C8: an accepted sell of q at p adds exactly (p - average_cost)*q, with the
\* average cost held before the sell, to realized_gains[ticker], changes no
\* other ticker's realized gains and leaves the position's average cost
\* unchanged; a call that is not an accepted sell changes no realized gains.
C8_RealizedGainOnSell ==
    /\ LastIsCoveredSell =>
        /\ GainAdded(portfolio.realized_gains[last.ticker],
                     last.before.realized_gains[last.ticker],
                     last.price, LastPosBefore.avg_cost, last.quantity)
        /\ LastPosNow.avg_cost = LastPosBefore.avg_cost
        /\ \A t \in Tickers \ {last.ticker} :
               portfolio.realized_gains[t] = last.before.realized_gains[t]
    /\ (last.made /\ ~LastIsCoveredSell) =>
        portfolio.realized_gains = last.before.realized_gains

\* A partial sell at a price other than the average cost has just been
\* accepted.
C8_Witness ==
    /\ LastIsCoveredSell
    /\ LastPosNow.shares > 0
    /\ portfolio.realized_gains[last.ticker]
           # last.before.realized_gains[last.ticker]

\* C9 (as stated): every position with zero shares has average cost 0, also
\* after all its shares were sold.
C9_ZeroSharesZeroAvgCost ==
    \A t \in Tickers :
        portfolio.positions[t].shares = 0
            => portfolio.positions[t].avg_cost = Zero

\* C10: a call with quantity <= 0, or with an action that is neither buy nor
\* sell, leaves cash, all positions and all realized gains unchanged.
C10_NoOpOnIgnoredInput ==
    (/\ last.made
     /\ \/ last.quantity <= 0
        \/ last.action \notin {"buy", "sell"})
    => portfolio = last.before

\* A hold of a positive quantity has just been requested on a position that
\* holds shares.
C10_Witness ==
    /\ LastOnLedger
    /\ last.action = "hold"
    /\ last.quantity > 0
    /\ LastPosBefore.shares > 0
    /\ portfolio = last.before

\* ======================================================================
\* Part 2a: Backtester._compute_performance_metrics
\* ======================================================================
\* Float results that are no number.
Nan == [nan |-> TRUE]
Inf == [inf |-> TRUE]

IsNumber(x) == x # Nan /\ x # Inf /\ x # None

FMul(x, y) == Frac(x.num * y.num, x.den * y.den)
FLess(x, y) == x.num * y.den < y.num * x.den

\* np.sqrt(252): trading days per year.
TradingDays == 252

\* risk_free_rate = 0.0434 / 252
RiskFreeRate == FDivInt(Frac(434, 10000), TradingDays)

\* df["Portfolio Value"]
ValuesOf(pv) == [i \in 1..Len(pv) |-> pv[i].Value]

\* Series.pct_change(): (v[i] - v[i-1]) / v[i-1]; NaN for the first row and
\* for 0/0, inf for a positive value after 0.
PctChange(values, i) ==
    IF i = 1 THEN Nan
    ELSE IF values[i - 1] = 0
         THEN (IF values[i] = 0 THEN Nan ELSE Inf)
         ELSE Frac(values[i] - values[i - 1], values[i - 1])

\* .fillna(0)
FillNa(x) == IF x = Nan THEN Zero ELSE x

\* df["Daily Return"] = df["Portfolio Value"].pct_change().fillna(0)
DailyReturns(values) ==
    [i \in 1..Len(values) |-> FillNa(PctChange(values, i))]

HasInf(rs) == \E i \in 1..Len(rs) : rs[i] = Inf

RECURSIVE SumTo(_, _)
SumTo(rs, n) == IF n = 0 THEN Zero ELSE FAdd(SumTo(rs, n - 1), rs[n])

\* df["Daily Return"].mean()
Mean(rs) == IF HasInf(rs) THEN Inf ELSE FDivInt(SumTo(rs, Len(rs)), Len(rs))

RECURSIVE SumSqDevTo(_, _, _)
SumSqDevTo(rs, m, n) ==
    IF n = 0 THEN Zero
    ELSE FAdd(SumSqDevTo(rs, m, n - 1), FMul(FSub(rs[n], m), FSub(rs[n], m)))

\* df["Daily Return"].std(), kept as its square: the sample variance
\* (ddof = 1), NaN for fewer than two rows and when a return is inf.
StdSquared(rs) ==
    IF Len(rs) < 2 \/ HasInf(rs) THEN Nan
    ELSE FDivInt(SumSqDevTo(rs, Mean(rs), Len(rs)), Len(rs) - 1)

\* Variant: a zero standard deviation is let through to the division.
StdPositive_NonNegative(std2) == std2 # Nan /\ std2.num >= 0

\* if std_daily_return > 0   (NaN > 0 is False)
StdPositive(std2) == std2 # Nan /\ std2.num > 0

\* sharpe_ratio = np.sqrt(252) * (mean - risk_free_rate) / std if std > 0
\* else 0.0.  The quotient is kept by its parts: it stands for
\* sqrt(annualized) * excess / sqrt(variance).
SharpeRatio(rs) ==
    IF StdPositive(StdSquared(rs))
    THEN [annualized |-> TradingDays,
          excess |-> FSub(Mean(rs), RiskFreeRate),
          variance |-> StdSquared(rs)]
    ELSE Zero

RECURSIVE MaxTo(_, _)
MaxTo(values, i) ==
    IF i = 1 THEN values[1]
    ELSE IF values[i] > MaxTo(values, i - 1) THEN values[i]
         ELSE MaxTo(values, i - 1)

\* Variant: the maximum of the whole series instead of the running maximum.
RollingMax_Whole(values, i) == MaxTo(values, Len(values))

\* rolling_max = df["Portfolio Value"].cummax()
RollingMax(values, i) == MaxTo(values, i)

\* drawdown = (df["Portfolio Value"] - rolling_max) / rolling_max
\* (0/0 is NaN)
Drawdown(values, i) ==
    IF RollingMax(values, i) = 0 THEN Nan
    ELSE Frac(values[i] - RollingMax(values, i), RollingMax(values, i))

\* Series.min(): the least row that is not NaN, NaN when there is none.
RECURSIVE MinTo(_, _)
MinTo(ds, n) ==
    IF n = 0 THEN Nan
    ELSE LET rest == MinTo(ds, n - 1)
         IN  IF ds[n] = Nan THEN rest
             ELSE IF rest = Nan THEN ds[n]
             ELSE IF FLess(ds[n], rest) THEN ds[n] ELSE rest

\* max_drawdown = drawdown.min() * 100
MaxDrawdown(values) ==
    LET ds == [i \in 1..Len(values) |-> Drawdown(values, i)]
        m == MinTo(ds, Len(values))
    IN  IF m = Nan THEN Nan ELSE FMulInt(m, 100)

\* pd.DataFrame(self.portfolio_values).set_index("Date") raises KeyError
\* when the list is empty: the frame has no "Date" column.
MetricsRaise(pv) == IF Len(pv) = 0 THEN "KeyError" ELSE "none"

\* The locals sharpe_ratio and max_drawdown the method logs.
ComputedMetrics(pv) ==
    [sharpe_ratio |-> SharpeRatio(DailyReturns(ValuesOf(pv))),
     max_drawdown |-> MaxDrawdown(ValuesOf(pv))]

\* One call of _compute_performance_metrics: it returns None, its results are
\* locals.
compute_performance_metrics ==
    /\ pc = "metrics"
    /\ outcome' = MetricsRaise(portfolio_values)
    /\ IF MetricsRaise(portfolio_values) = "none"
       THEN /\ computed' = ComputedMetrics(portfolio_values)
            /\ pc' = "computed"
       ELSE /\ computed' = computed
            /\ pc' = "raised"
    /\ UNCHANGED <<start_date, end_date, current_date, price_data,
                   portfolio_values, performance_metrics, day>>
    /\ UNCHANGED ledgerVars
    /\ UNCHANGED <<cacheVars, riskVars>>

\* The valuation series the method is applied to on its own: snapshots in
\* ascending date order, the first value positive (the first snapshot of a
\* run is worth the initial capital), later values >= 0.
ValuationSeries ==
    UNION {
        { [i \in 1..n |-> [Date |-> i, Value |-> f[i]]] :
            f \in { g \in [1..n -> 0..MaxValue] : n = 0 \/ g[1] > 0 } } :
        n \in 0..MaxSnapshots }

PerfInit ==
    /\ initial_capital = InitialCapital
    /\ portfolio = NewPortfolio(initial_capital)
    /\ raised = "none"
    /\ last = NoCall
    /\ prev = NoCall
    /\ ncalls = 0
    /\ start_date = 1
    /\ end_date = 1
    /\ pc = "metrics"
    /\ current_date = 0
    /\ price_data = [t \in Tickers |-> NoPriceData]
    /\ portfolio_values \in ValuationSeries
    /\ performance_metrics = NoMetrics
    /\ computed = NoMetrics
    /\ outcome = "none"
    /\ day = NoDay
    /\ CacheIdle
    /\ RiskIdle

PerfNext == compute_performance_metrics

PerfSpec == PerfInit /\ [][PerfNext]_vars

\* ------------------------------------------- properties of Part 2a
SeriesValues == ValuesOf(portfolio_values)

MetricsCallEnded == pc \in {"computed", "raised"}

\* The running maximum, written as the largest value of the prefix.
PeakUpTo(values, t) ==
    CHOOSE m \in {values[i] : i \in 1..t} :
        \A i \in 1..t : values[i] <= m

\* x = 100 * (values[t] - peak) / peak for the running peak at t.
IsDrawdownPercentAt(x, values, t) ==
    x.num * PeakUpTo(values, t)
        = 100 * (values[t] - PeakUpTo(values, t)) * x.den

\* x <= 100 * (values[t] - peak) / peak for the running peak at t.
AtMostDrawdownPercentAt(x, values, t) ==
    x.num * PeakUpTo(values, t)
        <= 100 * (values[t] - PeakUpTo(values, t)) * x.den

AllPositive(values) == \A i \in 1..Len(values) : values[i] > 0

NonDecreasing(values) ==
    \A i \in 2..Len(values) : values[i - 1] <= values[i]

ConstantSeries(values) ==
    \A i \in 2..Len(values) : values[i - 1] = values[i]

\* C18 (as stated): for a valuation series of 0 or 1 snapshots the
\* performance computation raises no error and yields Sharpe ratio 0 and
\* maximum drawdown 0.
C18_ShortSeriesYieldsZeros ==
    (MetricsCallEnded /\ Len(portfolio_values) <= 1) =>
        /\ outcome = "none"
        /\ computed.sharpe_ratio = Zero
        /\ computed.max_drawdown = Zero

\* C19: for a non-empty series of positive values the maximum drawdown is the
\* minimum over t of (value[t] - max(value[0..t])) / max(value[0..t]) times
\* 100; it is <= 0, and 0 when the series never decreases.
C19_MaxDrawdownIsMinimum ==
    (MetricsCallEnded /\ Len(portfolio_values) > 0
                      /\ AllPositive(SeriesValues)) =>
        /\ outcome = "none"
        /\ IsNumber(computed.max_drawdown)
        /\ computed.max_drawdown.num <= 0
        /\ \A t \in 1..Len(SeriesValues) :
               AtMostDrawdownPercentAt(computed.max_drawdown, SeriesValues, t)
        /\ \E t \in 1..Len(SeriesValues) :
               IsDrawdownPercentAt(computed.max_drawdown, SeriesValues, t)
        /\ NonDecreasing(SeriesValues) => computed.max_drawdown = Zero

\* The drawdown of a series that fell from a peak and later rose above it
\* has been computed.
C19_Witness ==
    /\ pc = "computed"
    /\ AllPositive(SeriesValues)
    /\ Len(SeriesValues) >= 3
    /\ IsNumber(computed.max_drawdown)
    /\ computed.max_drawdown.num < 0
    /\ SeriesValues[Len(SeriesValues)] > SeriesValues[1]
    /\ \E t \in 2..Len(SeriesValues) : SeriesValues[t] < SeriesValues[1]

\* C20: for a series whose daily returns have zero standard deviation (a
\* constant series) the computation ends without error and the Sharpe ratio
\* is exactly 0.
C20_ZeroStdSharpeIsZero ==
    (MetricsCallEnded /\ Len(portfolio_values) >= 2
                      /\ ConstantSeries(SeriesValues)) =>
        /\ outcome = "none"
        /\ computed.sharpe_ratio = Zero

\* The Sharpe ratio of a constant series of several snapshots has been
\* computed.
C20_Witness ==
    /\ pc = "computed"
    /\ Len(portfolio_values) >= 3
    /\ ConstantSeries(SeriesValues)
    /\ computed.sharpe_ratio = Zero

\* ======================================================================
\* Part 2b: Backtester.run_backtest
\* ======================================================================
Dates == 1..MaxDay

\* Monday to Friday; day 1 is a Wednesday.
IsBusinessDay(d) == (d + 1) % 7 < 5

\* Variant: every calendar day of the range is simulated.
BusinessDays_EveryDay(first, final) == first..final

\* dates = pd.date_range(self.start_date, self.end_date, freq="B")
BusinessDays(first, final) == {d \in first..final : IsBusinessDay(d)}

\* The provider holds one bar per traded day: none on a weekend.
Bar(date, close) == [found |-> TRUE, date |-> date, close |-> close]

\* The closes the provider's bars carry.
Closes == {0, MaxPrice}

BarsOn(date) ==
    {NoBar} \cup (IF IsBusinessDay(date)
                  THEN {Bar(date, p) : p \in Closes}
                  ELSE {})

\* The most recent bar of a series up to and including its day.
MostRecent(pd) == IF pd.today.found THEN pd.today ELSE pd.before

\* What the series of one ticker can hold when the loop moves from the day
\* of pd to the day `date`: the bar dated `date`, and the most recent bar
\* before it, which is a bar of a day in between or the most recent bar so far.
PriceDataAt(pd, from, date) ==
    { [today |-> b, before |-> r] :
        b \in BarsOn(date),
        r \in {MostRecent(pd)}
              \cup ((UNION {BarsOn(x) : x \in (from + 1)..(date - 1)}) \ {NoBar}) }

\* fetch_price_data: None when the provider returns no prices, else the
\* frame indexed by time.  `date in price_data.index` for one date.
HasBarOn(pd, date) ==
    \/ pd.today.found /\ pd.today.date = date
    \/ pd.before.found /\ pd.before.date = date

\* price_data.loc[date, "close"]
CloseOn(pd, date) ==
    IF pd.today.found /\ pd.today.date = date
    THEN pd.today.close
    ELSE pd.before.close

\* Variant: the bar of the simulated day itself is looked up.
PreviousDate_SameDay(date) == date

\* previous_date_str = (current_date - timedelta(days=1))
PreviousDate(date) == date - 1

\* The tickers that get a current price on `date`.
PricedTickers(data, date) ==
    {t \in Tickers : HasBarOn(data[t], PreviousDate(date))}

\* current_prices[ticker] = price_data.loc[previous_date_str, "close"]
CurrentPrices(data, date) ==
    [t \in PricedTickers(data, date) |-> CloseOn(data[t], PreviousDate(date))]

\* The date of the bar each current price was read from.
PriceDates(data, date) ==
    [t \in PricedTickers(data, date) |-> PreviousDate(date)]

\* Variant: a day without prices is simulated like any other.
SkipsDay_Never(current_prices) == FALSE

\* if not current_prices: ... continue
SkipsDay(current_prices) == DOMAIN current_prices = {}

\* What the agent may return for one ticker; "hold" with quantity 0 is also
\* what decision.get supplies for a missing key.
AgentDecisions ==
    {[action |-> "hold", quantity |-> 0]}
        \cup {[action |-> a, quantity |-> q] :
                a \in {"buy", "sell"}, q \in {1, MaxQty}}

\* agent_decisions.items(): the tickers the agent answered for, in the order
\* of its dict, each with its decision.
AgentAnswers ==
    {<< >>}
        \cup {<<[ticker |-> t, decision |-> x]>> :
                t \in Tickers, x \in AgentDecisions}
        \cup UNION {
                {<<[ticker |-> t, decision |-> x], [ticker |-> u, decision |-> y]>> :
                    u \in Tickers \ {t},
                    x \in AgentDecisions, y \in AgentDecisions} :
                t \in Tickers}

\* for ticker, decision in agent_decisions.items():
\*     if ticker in current_prices: self.execute_trade(...)
RECURSIVE ExecuteTrades(_, _, _)
ExecuteTrades(pf, answers, current_prices) ==
    IF answers = << >> THEN pf
    ELSE LET a == Head(answers)
             after == IF a.ticker \in DOMAIN current_prices
                      THEN TradeResult(pf, a.ticker, a.decision.action,
                                       a.decision.quantity,
                                       current_prices[a.ticker])
                      ELSE pf
         IN  ExecuteTrades(after, Tail(answers), current_prices)

RECURSIVE HoldingsValue(_, _, _)
HoldingsValue(pf, current_prices, tickers) ==
    IF tickers = {} THEN 0
    ELSE LET t == CHOOSE x \in tickers : TRUE
         IN  (IF t \in DOMAIN current_prices
              THEN pf.positions[t].shares * current_prices[t]
              ELSE 0)
             + HoldingsValue(pf, current_prices, tickers \ {t})

\* Variant: a held ticker without a current price is valued at 1 a share.
calculate_portfolio_value_AtCost(pf, current_prices) ==
    pf.cash + HoldingsValue(pf, current_prices, DOMAIN pf.positions)
        + HoldingsValue(pf,
              [t \in DOMAIN pf.positions \ DOMAIN current_prices |-> 1],
              DOMAIN pf.positions \ DOMAIN current_prices)

\* Backtester.calculate_portfolio_value
calculate_portfolio_value(pf, current_prices) ==
    pf.cash + HoldingsValue(pf, current_prices, DOMAIN pf.positions)

\* The loop variable after `date`: the next business day of the range, or
\* the end of the loop.
NoMoreDates == MaxDay + 1

NextDate(date) ==
    LET rest == {d \in BusinessDays(start_date, end_date) : d > date}
    IN  IF rest = {} THEN NoMoreDates
        ELSE CHOOSE d \in rest : \A x \in rest : d <= x

\* The loop moves on from `date`: to the next business day, or past the
\* loop to the metrics.
Advance(date) ==
    IF NextDate(date) = NoMoreDates
    THEN /\ pc' = "metrics"
         /\ UNCHANGED current_date
    ELSE /\ pc' = "fetch"
         /\ current_date' = NextDate(date)

\* The agent asked for a trade that execute_trade turned down: a buy or a
\* sell of a positive quantity on a priced ticker that left the ledger as
\* it was.
RECURSIVE SomeTradeDropped(_, _, _)
SomeTradeDropped(pf, answers, current_prices) ==
    IF answers = << >> THEN FALSE
    ELSE LET a == Head(answers)
             after == ExecuteTrades(pf, <<a>>, current_prices)
         IN  \/ /\ a.ticker \in DOMAIN current_prices
                /\ a.decision.action \in {"buy", "sell"}
                /\ a.decision.quantity > 0
                /\ after = pf
             \/ SomeTradeDropped(after, Tail(answers), current_prices)

\* What the loop body did on one day.
DayRecord(date, data, prices, price_dates, before, called, after, dropped) ==
    [simulated |-> TRUE, date |-> date, price_data |-> data,
     current_prices |-> prices, price_dates |-> price_dates,
     before |-> before, agent_called |-> called, after_trades |-> after,
     trade_dropped |-> dropped,
     snapshots_before |-> Len(portfolio_values)]

\* The day the loop body ran on before current_date.
DateBefore == IF day.simulated THEN day.date ELSE start_date - 1

\* run_backtest up to the loop.
run_backtest ==
    /\ pc = "start"
    /\ Advance(start_date - 1)
    /\ UNCHANGED <<start_date, end_date, price_data, portfolio_values,
                   performance_metrics, computed, outcome, day>>
    /\ UNCHANGED ledgerVars
    /\ UNCHANGED <<cacheVars, riskVars>>

\* The loop body up to the price lookup: fetch_price_data is called for
\* every ticker.  The provider answers for the whole range from start_date;
\* of its answer the model draws the bars up to current_date, the only ones
\* the lookup of the day can tell apart.
fetch_prices ==
    /\ pc = "fetch"
    /\ price_data' \in
           {f \in [Tickers -> UNION {PriceDataAt(price_data[t], DateBefore,
                                                 current_date) : t \in Tickers}] :
               \A t \in Tickers :
                   f[t] \in PriceDataAt(price_data[t], DateBefore,
                                        current_date)}
    /\ pc' = "decide"
    /\ UNCHANGED <<start_date, end_date, current_date, portfolio_values,
                   performance_metrics, computed, outcome, day>>
    /\ UNCHANGED ledgerVars
    /\ UNCHANGED <<cacheVars, riskVars>>

\* The rest of the loop body on a day without current prices.
skip_day ==
    /\ pc = "decide"
    /\ SkipsDay(CurrentPrices(price_data, current_date))
    /\ day' = DayRecord(current_date, price_data,
                        CurrentPrices(price_data, current_date),
                        PriceDates(price_data, current_date),
                        portfolio, FALSE, portfolio, FALSE)
    /\ Advance(current_date)
    /\ UNCHANGED <<start_date, end_date, price_data, portfolio_values,
                   performance_metrics, computed, outcome>>
    /\ UNCHANGED ledgerVars
    /\ UNCHANGED <<cacheVars, riskVars>>

\* The rest of the loop body on a day with current prices: the agent is
\* asked, its trades are executed in order, the snapshot is appended.
trade_day(answers) ==
    LET current_prices == CurrentPrices(price_data, current_date)
        after == ExecuteTrades(portfolio, answers, current_prices)
        total_value == calculate_portfolio_value(after, current_prices)
    IN  /\ pc = "decide"
        /\ ~SkipsDay(current_prices)
        /\ portfolio' = after
        /\ portfolio_values' =
               Append(portfolio_values,
                      [Date |-> current_date, Value |-> total_value])
        /\ day' = DayRecord(current_date, price_data, current_prices,
                            PriceDates(price_data, current_date),
                            portfolio, TRUE, after,
                            SomeTradeDropped(portfolio, answers,
                                             current_prices))
        /\ Advance(current_date)
        /\ UNCHANGED <<start_date, end_date, price_data,
                       performance_metrics, computed, outcome>>
        /\ UNCHANGED <<initial_capital, raised, last, prev, ncalls>>
        /\ UNCHANGED <<cacheVars, riskVars>>

\* return performance_metrics
return_metrics ==
    /\ pc = "computed"
    /\ pc' = "done"
    /\ outcome' = "returned"
    /\ UNCHANGED <<start_date, end_date, current_date, price_data,
                   portfolio_values, performance_metrics, computed, day>>
    /\ UNCHANGED ledgerVars
    /\ UNCHANGED <<cacheVars, riskVars>>

BacktestInit ==
    /\ initial_capital = InitialCapital
    /\ portfolio = NewPortfolio(initial_capital)
    /\ raised = "none"
    /\ last = NoCall
    /\ prev = NoCall
    /\ ncalls = 0
    /\ start_date \in Dates
    /\ end_date = MaxDay
    /\ pc = "start"
    /\ current_date = 0
    /\ price_data = [t \in Tickers |-> NoPriceData]
    /\ portfolio_values = << >>
    /\ performance_metrics = NoMetrics
    /\ computed = NoMetrics
    /\ outcome = "none"
    /\ day = NoDay
    /\ CacheIdle
    /\ RiskIdle

BacktestNext ==
    \/ run_backtest
    \/ fetch_prices
    \/ skip_day
    \/ \E answers \in AgentAnswers : trade_day(answers)
    \/ compute_performance_metrics
    \/ return_metrics

BacktestSpec == BacktestInit /\ [][BacktestNext]_vars

\* ======================================================================
\* Properties of run_backtest
\* ======================================================================
\* The last snapshot of the series.
LastSnapshot == portfolio_values[Len(portfolio_values)]

\* The last day the loop body ran on was simulated with the agent.
DayTraded == day.simulated /\ day.agent_called

\* The last day the loop body ran on was skipped.
DaySkipped == day.simulated /\ DOMAIN day.current_prices = {}

\* What one ticker adds to the value of a ledger under a pricing map.
PricedWorth(pf, current_prices, t) ==
    IF t \in DOMAIN current_prices
    THEN pf.positions[t].shares * current_prices[t]
    ELSE 0

\* v is a sum of f over S.
RECURSIVE SumOver(_, _)
SumOver(f, S) ==
    IF S = {} THEN 0
    ELSE LET t == CHOOSE x \in S : TRUE
         IN  f[t] + SumOver(f, S \ {t})

\* C11: the value recorded for a day is the cash plus shares times current
\* price over exactly the tickers that are held and priced, a held ticker
\* without a current price adds 0, and the ledger after the valuation is the
\* ledger the trades left.
C11_ValueIsCashPlusPricedHoldings ==
    DayTraded =>
        /\ LastSnapshot.Value =
               day.after_trades.cash
                   + SumOver([t \in Tickers |->
                                 PricedWorth(day.after_trades,
                                             day.current_prices, t)],
                             Tickers)
        /\ portfolio = day.after_trades

\* A day valued while one held ticker has a current price and another has
\* none.
C11_Witness ==
    /\ DayTraded
    /\ \E t \in Tickers, u \in Tickers :
           /\ t \notin DOMAIN day.current_prices
           /\ portfolio.positions[t].shares > 0
           /\ u \in DOMAIN day.current_prices
           /\ portfolio.positions[u].shares > 0
           /\ day.current_prices[u] > 0

\* C12: on every simulated day a ticker with a bar before the day is priced
\* at the close of the most recent such bar, and a ticker is left out of the
\* pricing map only when it has no bar before the day.
C12_PricedAtMostRecentEarlierBar ==
    day.simulated =>
        \A t \in Tickers :
            IF day.price_data[t].before.found
            THEN /\ t \in DOMAIN day.current_prices
                 /\ day.current_prices[t] = day.price_data[t].before.close
            ELSE t \notin DOMAIN day.current_prices

\* C13: every current price of a simulated day is the close of a bar of
\* that ticker dated strictly before the day.
C13_NoLookahead ==
    day.simulated =>
        \A t \in DOMAIN day.current_prices :
            /\ day.price_dates[t] < day.date
            /\ \E bar \in {day.price_data[t].today, day.price_data[t].before} :
                   /\ bar.found
                   /\ bar.date = day.price_dates[t]
                   /\ bar.close = day.current_prices[t]

\* A day traded at a price that differs from the close of the day's own bar.
C13_Witness ==
    /\ DayTraded
    /\ portfolio # day.before
    /\ \E t \in DOMAIN day.current_prices :
           /\ day.price_data[t].today.found
           /\ day.price_data[t].today.date = day.date
           /\ day.price_data[t].today.close # day.current_prices[t]

\* C14: after a day with an empty pricing map the agent was not called, the
\* ledger and the series are what they were before the day, and the loop is
\* at the next business day or past its end.
C14_EmptyPricingMapSkipsDay ==
    DaySkipped =>
        /\ ~day.agent_called
        /\ portfolio = day.before
        /\ Len(portfolio_values) = day.snapshots_before
        /\ pc \in {"fetch", "decide"} => current_date = NextDate(day.date)
        /\ pc \in {"fetch", "decide"} \/ NextDate(day.date) = NoMoreDates

\* A skipped day after which the loop body runs on the next business day.
C14_Witness ==
    /\ DaySkipped
    /\ pc = "decide"
    /\ current_date > day.date


\* The dates of the snapshots of a series.
SnapshotDates(series) == {series[i].Date : i \in 1..Len(series)}

\* The snapshots of a series are dated in strictly ascending order.
StrictlyAscending(series) ==
    \A i \in 1..Len(series), j \in 1..Len(series) :
        i < j => series[i].Date < series[j].Date

\* The loop is over.
LoopEnded == pc \in {"metrics", "computed", "raised", "done"}

\* C15 as stated: once the loop is over the series holds one snapshot for
\* each business day of [start_date, end_date], in ascending order.
C15_SnapshotForEveryBusinessDay ==
    LoopEnded =>
        /\ SnapshotDates(portfolio_values) = BusinessDays(start_date, end_date)
        /\ StrictlyAscending(portfolio_values)

\* One step of the series: it stays as it is or grows by one snapshot at
\* its end.
AppendOnlyStep ==
    \/ portfolio_values' = portfolio_values
    \/ /\ Len(portfolio_values') = Len(portfolio_values) + 1
       /\ SubSeq(portfolio_values', 1, Len(portfolio_values)) = portfolio_values

\* One step of the loop body: the day it ran on got a snapshot if and only
\* if its pricing map was not empty, and the snapshot is dated that day.
SnapshotIffPricedStep ==
    day' # day =>
        IF DOMAIN day'.current_prices = {}
        THEN portfolio_values' = portfolio_values
        ELSE /\ Len(portfolio_values') = Len(portfolio_values) + 1
             /\ portfolio_values'[Len(portfolio_values')].Date = day'.date

\* C15, amended: the series is append-only, dated in strictly ascending
\* order on business days of [start_date, end_date], with exactly one
\* snapshot for each day whose pricing map was not empty and none for a
\* skipped day.
C15_AppendOnlyOnePerPricedDay ==
    [][/\ AppendOnlyStep
       /\ SnapshotIffPricedStep
       /\ StrictlyAscending(portfolio_values')
       /\ \A d \in SnapshotDates(portfolio_values') :
              d \in start_date..end_date /\ IsBusinessDay(d)]_vars

\* A finished loop that skipped one business day and recorded two.
C15_Witness ==
    /\ LoopEnded
    /\ Len(portfolio_values) = 2
    /\ Cardinality(BusinessDays(start_date, end_date)) = 3

\* C16: the run never ends in an error: it goes through the loop and the
\* metrics and returns, whatever days were skipped.
C16_RunNeverRaises ==
    /\ pc # "raised"
    /\ outcome \in {"none", "returned"}

\* C17: the returned result holds a number for sharpe_ratio and a number
\* that is at most 0 for max_drawdown.
C17_ReturnedMetricsAreNumbers ==
    pc = "done" =>
        /\ performance_metrics.sharpe_ratio # None
        /\ performance_metrics.max_drawdown # None
        /\ performance_metrics.max_drawdown = computed.max_drawdown


\* ======================================================================
\* Properties of the ledger as a whole
\* ======================================================================
\* The sum of the fractions f[t] over the tickers of S.
RECURSIVE FSumOver(_, _)
FSumOver(f, S) ==
    IF S = {} THEN Zero
    ELSE LET t == CHOOSE x \in S : TRUE
         IN  FAdd(f[t], FSumOver(f, S \ {t}))

\* cash + sum of shares * avg_cost - sum of realized gains.
CostBasisTotal(pf) ==
    FSub(FAdd(FromInt(pf.cash),
              FSumOver([t \in Tickers |->
                           FMulInt(pf.positions[t].avg_cost,
                                   pf.positions[t].shares)],
                       Tickers)),
         FSumOver(pf.realized_gains, Tickers))

WorthAt(pf, current_prices) ==
    pf.cash + SumOver([t \in Tickers |-> PricedWorth(pf, current_prices, t)],
                      Tickers)

\* C29: the value recorded for a simulated day is the value, under the
\* day's pricing map, of the ledger as it stood before the day's trades.
C29_TradingIsValueNeutral ==
    DayTraded =>
        LastSnapshot.Value = WorthAt(day.before, day.current_prices)

\* A day on which shares of a ticker priced above 0 changed hands.
C29_Witness ==
    /\ DayTraded
    /\ \E t \in DOMAIN day.current_prices :
           /\ day.current_prices[t] > 0
           /\ portfolio.positions[t].shares # day.before.positions[t].shares


\* The ledger after the first k trades of a day's answers.
AfterTrades(pf, answers, current_prices, k) ==
    ExecuteTrades(pf, SubSeq(answers, 1, k), current_prices)

\* Trade k of the answers leaves every other ticker's position and realized
\* gains as the earlier trades left them.
OtherTickersKept(pf, answers, current_prices, k) ==
    \A u \in Tickers \ {answers[k].ticker} :
        /\ AfterTrades(pf, answers, current_prices, k).positions[u]
               = AfterTrades(pf, answers, current_prices, k - 1).positions[u]
        /\ AfterTrades(pf, answers, current_prices, k).realized_gains[u]
               = AfterTrades(pf, answers, current_prices, k - 1).realized_gains[u]

\* Trade k of the answers, on a priced ticker, is executed on the ledger the
\* earlier trades left, whether execute_trade accepted them or not.
TradeStillExecuted(pf, answers, current_prices, k) ==
    answers[k].ticker \in DOMAIN current_prices =>
        AfterTrades(pf, answers, current_prices, k)
            = TradeResult(AfterTrades(pf, answers, current_prices, k - 1),
                          answers[k].ticker, answers[k].decision.action,
                          answers[k].decision.quantity,
                          current_prices[answers[k].ticker])

\* C27: whatever the agent answers on a day with prices, every trade leaves
\* the other tickers' shares, average cost and realized gains unchanged and
\* is executed whether or not an earlier trade of the day was turned down;
\* and a day with a trade turned down still gets its snapshot.
C27_OtherTickersUntouchedDayGoesOn ==
    /\ (pc = "decide" /\ ~SkipsDay(CurrentPrices(price_data, current_date))) =>
           \A answers \in AgentAnswers : \A k \in 1..Len(answers) :
               /\ OtherTickersKept(portfolio, answers,
                                   CurrentPrices(price_data, current_date), k)
               /\ TradeStillExecuted(portfolio, answers,
                                     CurrentPrices(price_data, current_date), k)
    /\ DayTraded =>
           /\ Len(portfolio_values) = day.snapshots_before + 1
           /\ LastSnapshot.Date = day.date
           /\ \A u \in Tickers \ DOMAIN day.current_prices :
                  /\ portfolio.positions[u] = day.before.positions[u]
                  /\ portfolio.realized_gains[u] = day.before.realized_gains[u]

\* A day on which one trade was turned down, another ticker's trade was
\* executed while the first ticker kept the shares it held, and the snapshot
\* was recorded.
C27_Witness ==
    /\ DayTraded
    /\ day.trade_dropped
    /\ Len(portfolio_values) = day.snapshots_before + 1
    /\ \E t \in Tickers, u \in Tickers :
           /\ t # u
           /\ portfolio.positions[t] = day.before.positions[t]
           /\ portfolio.positions[t].shares > 0
           /\ portfolio.positions[u].shares # day.before.positions[u].shares


\* ======================================================================
\* Backtester.__init__ with a configuration the contract calls invalid
\* ======================================================================
\* Capitals that are not positive.
NonPositiveCapitals == {-1, 0}

\* __init__ stores what it is given: a capital that is not positive with a
\* well-formed range, or a positive capital with start_date after end_date.
ConfigInit ==
    /\ \/ /\ initial_capital \in NonPositiveCapitals
          /\ start_date \in Dates
          /\ end_date = MaxDay
       \/ /\ initial_capital = InitialCapital
          /\ start_date \in Dates
          /\ end_date \in Dates
          /\ start_date > end_date
    /\ portfolio = NewPortfolio(initial_capital)
    /\ raised = "none"
    /\ last = NoCall
    /\ prev = NoCall
    /\ ncalls = 0
    /\ pc = "start"
    /\ current_date = 0
    /\ price_data = [t \in Tickers |-> NoPriceData]
    /\ portfolio_values = << >>
    /\ performance_metrics = NoMetrics
    /\ computed = NoMetrics
    /\ outcome = "none"
    /\ day = NoDay
    /\ CacheIdle
    /\ RiskIdle

ConfigSpec == ConfigInit /\ [][BacktestNext]_vars

\* The configuration is one the contract rejects.
InvalidConfiguration == start_date > end_date \/ initial_capital <= 0

\* C24: a run with start_date > end_date or a capital that is not positive
\* never gets past its start: the provider is not asked for prices, no day
\* is simulated, and the ledger holds no coerced capital.
C24_InvalidConfigurationRejected ==
    InvalidConfiguration =>
        /\ pc = "start"
        /\ ~day.simulated
        /\ portfolio.cash = initial_capital


\* ======================================================================
\* Part 3: RiskManager (src/agents/risk_manager.py)
\* ======================================================================
\* Longest price series and largest close handed to the risk manager.
MaxBars == 3
MaxClose == 2

\* RiskManager.__init__: initial_capital: float = 100000
DefaultCapital == 100000

\* The series of the contract's example: daily returns 0.04 and 0, a
\* volatility of 0.02 and, against itself as the market, a beta of 2.
ExampleCloses == <<25, 26, 26>>

\* Sequences of at most n elements of S.
SeqsUpTo(S, n) == UNION {[1..k -> S] : k \in 0..n}

\* x is a fraction, not None, nan or inf.
IsFraction(x) == x # None /\ x # Nan /\ x # Inf

AllFractions(rs) == \A i \in 1..Len(rs) : IsFraction(rs[i])

IsSquare(n) == \E k \in 0..n : k * k = n

IntSqrt(n) == CHOOSE k \in 0..n : k * k = n

\* x >= 0 is the square of a fraction.
HasFractionRoot(x) == IsSquare(x.num) /\ IsSquare(x.den)

\* np.sqrt of a fraction that has a fraction as its root.
FSqrt(x) == [num |-> IntSqrt(x.num), den |-> IntSqrt(x.den)]

\* x / y for fractions, y # 0.
FDiv(x, y) ==
    IF y.num > 0 THEN Frac(x.num * y.den, x.den * y.num)
    ELSE Frac(-(x.num * y.den), x.den * (-y.num))

\* PriceResponse(ticker=..., prices=[...]), kept by the closes of its bars.
PriceResponse(closes) == [prices |-> closes]

\* not price_data or not price_data.prices
NoPrices(price_response) ==
    price_response = None \/ price_response.prices = << >>

\* np.diff(closes) / closes[:-1] on floats: x/0 is inf, 0/0 is nan.
Returns(closes) ==
    [i \in 1..(Len(closes) - 1) |->
        IF closes[i] = 0
        THEN (IF closes[i + 1] = 0 THEN Nan ELSE Inf)
        ELSE Frac(closes[i + 1] - closes[i], closes[i])]

\* The population variance (ddof = 0) of finite returns.
PopulationVariance(rs) ==
    FDivInt(SumSqDevTo(rs, FDivInt(SumTo(rs, Len(rs)), Len(rs)), Len(rs)),
            Len(rs))

\* np.var(rs): nan for an empty array and when an entry is nan or inf.
NpVar(rs) ==
    IF Len(rs) = 0 \/ ~AllFractions(rs) THEN Nan
    ELSE PopulationVariance(rs)

\* np.std(rs)
NpStd(rs) == IF NpVar(rs) = Nan THEN Nan ELSE FSqrt(NpVar(rs))

RECURSIVE SumCoDevTo(_, _, _, _, _)
SumCoDevTo(xs, mx, ys, my, n) ==
    IF n = 0 THEN Zero
    ELSE FAdd(SumCoDevTo(xs, mx, ys, my, n - 1),
              FMul(FSub(xs[n], mx), FSub(ys[n], my)))

\* np.cov(xs, ys)[0, 1]: the sample covariance (ddof = 1), nan for fewer
\* than two observations and when an entry is nan or inf.
NpCov(xs, ys) ==
    IF Len(xs) < 2 \/ ~AllFractions(xs) \/ ~AllFractions(ys) THEN Nan
    ELSE FDivInt(SumCoDevTo(xs, FDivInt(SumTo(xs, Len(xs)), Len(xs)),
                            ys, FDivInt(SumTo(ys, Len(ys)), Len(ys)),
                            Len(xs)),
                 Len(xs) - 1)

\* RiskManager.get_volatility, given what get_prices returned.
GetVolatility(price_response) ==
    IF NoPrices(price_response) THEN None
    ELSE NpStd(Returns(price_response.prices))

\* RiskManager.get_beta, given what get_prices returned for the ticker and
\* for the market index.
GetBeta(stock, market) ==
    IF NoPrices(stock) \/ NoPrices(market) THEN None
    ELSE IF Len(Returns(stock.prices)) # Len(Returns(market.prices)) THEN None
    ELSE LET covariance == NpCov(Returns(stock.prices), Returns(market.prices))
             market_variance == NpVar(Returns(market.prices))
         IN  IF market_variance # Nan /\ market_variance.num > 0
             THEN (IF covariance = Nan THEN Nan
                   ELSE FDiv(covariance, market_variance))
             ELSE None


\* The confidence levels calculate_var is called with.
ConfidenceLevels == {Frac(95, 100), Frac(99, 100), Frac(90, 100)}

\* z_score = 1.65 if confidence_level == 0.95 else 2.33
ZScore(confidence_level) ==
    IF confidence_level = Frac(95, 100) THEN Frac(165, 100)
    ELSE Frac(233, 100)

\* x * y on floats where y is a positive fraction.
TimesPositive(x, y) == IF IsFraction(x) THEN FMul(x, y) ELSE x

\* RiskManager.calculate_var, given what get_prices returned.
CalculateVar(capital, series, confidence_level) ==
    LET volatility == GetVolatility(series)
    IN  IF volatility = None THEN None
        ELSE TimesPositive(TimesPositive(volatility, FromInt(capital)),
                           ZScore(confidence_level))

\* x < y on floats: False when either is nan.
FloatLess(x, y) ==
    IF x = Nan \/ y = Nan THEN FALSE
    ELSE IF x = Inf THEN FALSE
    ELSE IF y = Inf THEN TRUE
    ELSE FLess(x, y)

\* Python's min(x, y) and max(x, y): the first argument unless the second
\* compares below (above) it.
PyMin(x, y) == IF FloatLess(y, x) THEN y ELSE x
PyMax(x, y) == IF FloatLess(x, y) THEN y ELSE x

\* risk_per_trade = 0.01
RiskPerTrade == Frac(1, 100)

\* beta > 0
BetaPositive(beta) == beta # Nan /\ beta.num > 0

\* volatility * beta if beta > 0 else 1
Divisor(volatility, beta) ==
    IF BetaPositive(beta)
    THEN (IF volatility = Nan THEN Nan ELSE FMul(volatility, beta))
    ELSE FromInt(1)

\* adjusted_risk = risk_per_trade / divisor: a division of numpy floats,
\* inf when the divisor is 0.
AdjustedRisk(volatility, beta) ==
    IF Divisor(volatility, beta) = Nan THEN Nan
    ELSE IF Divisor(volatility, beta) = Zero THEN Inf
    ELSE FDiv(RiskPerTrade, Divisor(volatility, beta))

\* position_size = self.initial_capital * adjusted_risk
RawPositionSize(capital, volatility, beta) ==
    TimesPositive(AdjustedRisk(volatility, beta), FromInt(capital))

\* Variant: the position is not capped.
Capped_Never(capital, position_size) == PyMax(Zero, position_size)

\* max(0, min(position_size, self.initial_capital * 0.1))
Capped(capital, position_size) ==
    PyMax(Zero, PyMin(position_size, Frac(capital, 10)))

\* RiskManager.determine_position_size, given what get_prices returned for
\* the ticker and for "SPY".
DeterminePositionSize(capital, stock, market) ==
    LET volatility == GetVolatility(stock)
        beta == GetBeta(stock, market)
    IN  IF volatility = None \/ beta = None THEN None
        ELSE Capped(capital, RawPositionSize(capital, volatility, beta))

\* RiskManager.manage_risk: None without a position size, else the
\* analysis with the position size and the value at risk at 95%.
ManageRisk(capital, stock, market) ==
    IF DeterminePositionSize(capital, stock, market) = None THEN None
    ELSE [position_size |-> DeterminePositionSize(capital, stock, market),
          value_at_risk |-> CalculateVar(capital, stock, Frac(95, 100))]


\* The volatility of a series is nan or a fraction: np.sqrt is exact on it.
RationalVolatility(series) ==
    \/ NpVar(Returns(series)) = Nan
    \/ HasFractionRoot(NpVar(Returns(series)))

\* What get_prices returns for the ticker: None, or a response whose price
\* list may be empty.
StockSeries ==
    {None} \cup {PriceResponse(s) :
                    s \in {x \in SeqsUpTo(0..MaxClose, MaxBars)
                                    \cup {ExampleCloses} :
                               RationalVolatility(x)}}

\* What get_prices returns for the market index.
MarketSeries ==
    {None} \cup {PriceResponse(s) :
                    s \in SeqsUpTo({1, MaxClose}, MaxBars)
                               \cup {ExampleCloses}}

\* The capitals a RiskManager is built with.
RiskCapitals == {1, DefaultCapital}

\* Each call is made on a RiskManager that has answered no call yet: the
\* methods keep no state between calls.
get_volatility ==
    /\ risk_call = NoRiskCall
    /\ risk_call' = [op |-> "get_volatility",
                     result |-> GetVolatility(price_series.stock)]
    /\ UNCHANGED <<price_series, cacheVars, ledgerVars, runVars>>

get_beta ==
    /\ risk_call = NoRiskCall
    /\ risk_call' = [op |-> "get_beta",
                     result |-> GetBeta(price_series.stock,
                                        price_series.market)]
    /\ UNCHANGED <<price_series, cacheVars, ledgerVars, runVars>>

calculate_var(confidence_level) ==
    /\ risk_call = NoRiskCall
    /\ risk_call' = [op |-> "calculate_var",
                     confidence_level |-> confidence_level,
                     result |-> CalculateVar(initial_capital,
                                             price_series.stock,
                                             confidence_level)]
    /\ UNCHANGED <<price_series, cacheVars, ledgerVars, runVars>>

determine_position_size ==
    /\ risk_call = NoRiskCall
    /\ risk_call' =
           LET volatility == GetVolatility(price_series.stock)
               beta == GetBeta(price_series.stock, price_series.market)
               available == volatility # None /\ beta # None
           IN  [op |-> "determine_position_size",
                volatility |-> volatility,
                beta |-> beta,
                divisor |-> IF available THEN Divisor(volatility, beta)
                            ELSE None,
                position_size |->
                    IF available
                    THEN RawPositionSize(initial_capital, volatility, beta)
                    ELSE None,
                result |-> DeterminePositionSize(initial_capital,
                                                 price_series.stock,
                                                 price_series.market)]
    /\ UNCHANGED <<price_series, cacheVars, ledgerVars, runVars>>

manage_risk ==
    /\ risk_call = NoRiskCall
    /\ risk_call' = [op |-> "manage_risk",
                     result |-> ManageRisk(initial_capital,
                                           price_series.stock,
                                           price_series.market)]
    /\ UNCHANGED <<price_series, cacheVars, ledgerVars, runVars>>

RiskInit ==
    /\ initial_capital \in RiskCapitals
    /\ portfolio = NewPortfolio(initial_capital)
    /\ raised = "none"
    /\ last = NoCall
    /\ prev = NoCall
    /\ ncalls = 0
    /\ RunIdle
    /\ CacheIdle
    /\ price_series \in [stock : StockSeries, market : MarketSeries]
    /\ risk_call = NoRiskCall

RiskNext ==
    \/ get_volatility
    \/ get_beta
    \/ \E c \in ConfidenceLevels : calculate_var(c)
    \/ determine_position_size
    \/ manage_risk

RiskSpec == RiskInit /\ [][RiskNext]_vars


\* ======================================================================
\* Properties of the risk manager
\* ======================================================================
\* The confidence levels the contract supports.
SupportedLevels == {Frac(95, 100), Frac(99, 100)}

\* C21: calculate_var called with a confidence level other than 0.95 and
\* 0.99 does not come back with a value at risk.
C21_UnsupportedConfidenceRejected ==
    (/\ risk_call.op = "calculate_var"
     /\ risk_call.confidence_level \notin SupportedLevels) =>
        ~IsFraction(risk_call.result)

\* The response holds fewer than two bars (or there is none).
FewerThanTwoBars(price_response) ==
    price_response = None \/ Len(price_response.prices) < 2

\* C22: on a price series of fewer than two bars get_volatility returns
\* None, and so does every metric that depends on it.
C22_ShortSeriesUnavailable ==
    (/\ risk_call.op \in {"get_volatility", "calculate_var",
                          "determine_position_size", "manage_risk"}
     /\ FewerThanTwoBars(price_series.stock)) =>
        risk_call.result = None

\* C23: a position size that is available lies between 0 and a tenth of the
\* capital; a beta that is not positive makes the divisor 1; a volatility
\* of 0.02 with a beta of 2 on a capital of 100000 gives the raw size 25000
\* and the position size 10000.
C23_PositionSizeWithinCap ==
    (risk_call.op = "determine_position_size" /\ risk_call.result # None) =>
        /\ IsFraction(risk_call.result)
        /\ risk_call.result.num >= 0
        /\ risk_call.result.num * 10 <= initial_capital * risk_call.result.den
        /\ (risk_call.beta = Nan \/ risk_call.beta.num <= 0) =>
               risk_call.divisor = FromInt(1)
        /\ (/\ risk_call.volatility = Frac(2, 100)
            /\ risk_call.beta = FromInt(2)
            /\ initial_capital = 100000) =>
               /\ risk_call.position_size = FromInt(25000)
               /\ risk_call.result = FromInt(10000)

\* The contract's example: volatility 0.02, beta 2, capital 100000, capped
\* to 10000.
C23_Witness ==
    /\ risk_call.op = "determine_position_size"
    /\ initial_capital = 100000
    /\ risk_call.volatility = Frac(2, 100)
    /\ risk_call.beta = FromInt(2)
    /\ risk_call.result = FromInt(10000)


\* ======================================================================
\* Part 4: the shared price cache (src/data/cache.py) and
\* APIClient.get_prices (src/data/api_client.py)
\* ======================================================================
\* Latest date of a bar and number of calls made on the cache.
MaxBarDate == 2
MaxCacheCalls == 3

\* The ticker the calls are about.
CacheTickers == {"A"}

BarDates == 1..MaxBarDate

\* A cached price: the dict of a Price, kept by its time and its close.
PriceItem(time, close) == [time |-> time, close |-> close]

\* What the provider holds for a ticker: one bar a day, close 1.
ProviderBars(ticker) == [d \in BarDates |-> PriceItem(d, 1)]

\* Test of a bar's time against a range.
InRange(item, start, end) == start <= item.time /\ item.time <= end

\* self._get("/prices/", params): the provider's bars of the range, in
\* date order.
ProviderAnswer(ticker, start, end) ==
    SelectSeq(ProviderBars(ticker), LAMBDA item : InRange(item, start, end))

\* The batches handed to set_prices directly: no bar, one bar or two bars
\* with close 2, dates in any order, repeated or not.
Batches ==
    {<< >>}
        \cup {<<PriceItem(d, 2)>> : d \in BarDates}
        \cup {<<PriceItem(d, 2), PriceItem(e, 2)>> : d \in BarDates, e \in BarDates}

\* The date ranges get_prices is called with.
Ranges == {r \in BarDates \X BarDates : r[1] <= r[2]}

\* The keys of a list of items.
Keys(items) == {items[i].time : i \in 1..Len(items)}

\* Variant: the new data replaces what is cached.
MergeData_Overwrite(existing_data, new_data) == new_data

\* DataCache._merge_data with key_field = "time".  existing_data is None
\* or the cached list.
MergeData(existing_data, new_data) ==
    IF existing_data = None \/ existing_data.items = << >>
    THEN new_data
    ELSE existing_data.items
             \o SelectSeq(new_data,
                          LAMBDA item : item.time \notin Keys(existing_data.items))

\* self._price_cache.get(ticker)
CacheGet(cache, ticker) ==
    IF ticker \in DOMAIN cache THEN [items |-> cache[ticker]] ELSE None

\* self._price_cache[ticker] = items
CachePut(cache, ticker, items) ==
    [t \in DOMAIN cache \cup {ticker} |->
        IF t = ticker THEN items ELSE cache[t]]

\* items with one more item put in before the first item of a later time.
RECURSIVE InsertByTime(_, _)
InsertByTime(items, item) ==
    IF items = << >> THEN <<item>>
    ELSE IF item.time < items[Len(items)].time
         THEN Append(InsertByTime(SubSeq(items, 1, Len(items) - 1), item),
                     items[Len(items)])
         ELSE Append(items, item)

\* sorted(items, key=lambda x: x["time"]): a stable sort.
RECURSIVE SortedByTime(_)
SortedByTime(items) ==
    IF items = << >> THEN << >>
    ELSE InsertByTime(SortedByTime(SubSeq(items, 1, Len(items) - 1)),
                      items[Len(items)])

\* The cached branch of APIClient.get_prices.
FilteredPrices(cached, start, end) ==
    SortedByTime(SelectSeq(cached, LAMBDA item : InRange(item, start, end)))

\* Variant: every thread may enter the locked block at any time.
CanAcquire_Always(holder) == TRUE

\* with self._lock: the lock is free.
CanAcquire(holder) == holder = NoThread


\* A thread between calls.
Between(th) == threads[th].pc = "idle"

\* One more call may be started.
MayCall == cache_log.calls < MaxCacheCalls

\* thread th calls DataCache.set_prices(ticker, prices).
call_set_prices(th, ticker, prices) ==
    /\ Between(th)
    /\ MayCall
    /\ threads' = [threads EXCEPT ![th] =
                      [op |-> "set_prices", pc |-> "lock_set",
                       ticker |-> ticker, range |-> << >>,
                       prices |-> prices]]
    /\ cache_log' = [cache_log EXCEPT !.calls = @ + 1, !.direct = TRUE]
    /\ UNCHANGED <<price_cache, lock, riskVars, ledgerVars, runVars>>

\* thread th calls APIClient.get_prices(ticker, start_date, end_date).
call_get_prices(th, ticker, start, end) ==
    /\ Between(th)
    /\ MayCall
    /\ threads' = [threads EXCEPT ![th] =
                      [op |-> "get_prices", pc |-> "lock_get",
                       ticker |-> ticker, start |-> start, end |-> end]]
    /\ cache_log' = [cache_log EXCEPT !.calls = @ + 1]
    /\ UNCHANGED <<price_cache, lock, riskVars, ledgerVars, runVars>>

\* APIClient.get_prices up to its return or its call of set_prices.
\* DataCache.get_prices runs inside the lock, which it takes and releases;
\* a cached list that is not empty is filtered, sorted and returned;
\* otherwise the provider is asked (self._get), and with data the prices go
\* to the cache, without data the call returns None.
get_prices_lookup(th) ==
    LET call == threads[th]
        cached == CacheGet(price_cache, call.ticker)
        data == ProviderAnswer(call.ticker, call.start, call.end)
    IN  /\ call.pc = "lock_get"
        /\ CanAcquire(lock)
        /\ threads' = [threads EXCEPT ![th] =
               IF cached # None /\ cached.items # << >>
               THEN [op |-> call.op, pc |-> "idle", ticker |-> call.ticker,
                     start |-> call.start, end |-> call.end,
                     result |-> PriceResponse(
                         FilteredPrices(cached.items, call.start, call.end))]
               ELSE IF data # << >>
               THEN [op |-> call.op, pc |-> "lock_set", ticker |-> call.ticker,
                     range |-> <<call.start, call.end>>, prices |-> data]
               ELSE [op |-> call.op, pc |-> "idle", ticker |-> call.ticker,
                     start |-> call.start, end |-> call.end, result |-> None]]
        /\ UNCHANGED <<price_cache, lock, cache_log, riskVars, ledgerVars,
                       runVars>>

\* DataCache.set_prices: the lock is taken and self._price_cache.get(ticker)
\* is evaluated.
set_prices_read(th) ==
    LET call == threads[th]
    IN  /\ call.pc = "lock_set"
        /\ CanAcquire(lock)
        /\ lock' = th
        /\ threads' = [threads EXCEPT ![th] =
               [op |-> call.op, pc |-> "set_write", ticker |-> call.ticker,
                prices |-> call.prices, range |-> call.range,
                existing |-> CacheGet(price_cache, call.ticker)]]
        /\ UNCHANGED <<price_cache, cache_log, riskVars, ledgerVars, runVars>>

\* DataCache.set_prices inside the lock: the merged list is assigned and
\* the lock is released; APIClient.get_prices returns the provider's prices.
set_prices_write(th) ==
    LET call == threads[th]
    IN  /\ call.pc = "set_write"
        /\ price_cache' = CachePut(price_cache, call.ticker,
                                   MergeData(call.existing, call.prices))
        /\ lock' = NoThread
        /\ cache_log' = [cache_log EXCEPT
                            !.written = @ \cup {<<call.ticker, k>> :
                                                    k \in Keys(call.prices)}]
        /\ threads' = [threads EXCEPT ![th] =
               IF call.op = "get_prices"
               THEN [op |-> call.op, pc |-> "idle", ticker |-> call.ticker,
                     start |-> call.range[1], end |-> call.range[2],
                     result |-> PriceResponse(call.prices)]
               ELSE [op |-> call.op, pc |-> "idle", ticker |-> call.ticker,
                     prices |-> call.prices]]
        /\ UNCHANGED <<riskVars, ledgerVars, runVars>>

CacheInit ==
    /\ initial_capital = InitialCapital
    /\ portfolio = NewPortfolio(initial_capital)
    /\ raised = "none"
    /\ last = NoCall
    /\ prev = NoCall
    /\ ncalls = 0
    /\ RunIdle
    /\ RiskIdle
    /\ CacheIdle

CacheNext ==
    \E th \in Threads :
        \/ \E t \in CacheTickers, b \in Batches : call_set_prices(th, t, b)
        \/ \E t \in CacheTickers, r \in Ranges :
               call_get_prices(th, t, r[1], r[2])
        \/ get_prices_lookup(th)
        \/ set_prices_read(th)
        \/ set_prices_write(th)

CacheSpec == CacheInit /\ [][CacheNext]_vars


\* ======================================================================
\* Properties of the cache and of APIClient.get_prices
\* ======================================================================
\* s is the beginning of t.
IsPrefix(s, t) == Len(s) <= Len(t) /\ SubSeq(t, 1, Len(s)) = s

\* One step leaves every cached list as the beginning of the list cached
\* after it: no entry is removed, replaced or moved.
EntriesKeptStep ==
    \A t \in DOMAIN price_cache :
        /\ t \in DOMAIN price_cache'
        /\ IsPrefix(price_cache[t], price_cache'[t])

\* Every key a completed set_prices wrote is cached for its ticker.
WrittenKeysCached(cache, written) ==
    \A w \in written :
        /\ w[1] \in DOMAIN cache
        /\ w[2] \in Keys(cache[w[1]])

\* At most one thread is inside the locked block of set_prices.
WritesSerialized(ts) ==
    Cardinality({th \in Threads : ts[th].pc = "set_write"}) <= 1

\* C25: whatever the interleaving of the threads' calls, at most one thread
\* is inside set_prices, no step removes or replaces a cached entry, and
\* the keys of every completed set_prices are in the cache.
C25_MergeOnlyNoLostUpdate ==
    [][/\ EntriesKeptStep
       /\ WrittenKeysCached(price_cache', cache_log'.written)
       /\ WritesSerialized(threads')]_vars

\* A set_prices has completed, one thread is inside set_prices with the
\* list it read, and the other thread waits for the lock with its batch.
C25_Witness ==
    /\ cache_log.written # {}
    /\ \E th \in Threads, other \in Threads :
           /\ threads[th].pc = "set_write"
           /\ threads[th].existing # None
           /\ lock = th
           /\ threads[other].pc = "lock_set"
           /\ threads[other].prices # << >>
           /\ threads[other].ticker = threads[th].ticker

\* A get_prices call of thread th has returned.
Returned(th) == threads[th].op = "get_prices" /\ threads[th].pc = "idle"

\* The times of a list of bars are strictly ascending.
AscendingTimes(items) ==
    \A i \in 1..Len(items), j \in 1..Len(items) :
        i < j => items[i].time < items[j].time

\* C26: the price list a get_prices call returns holds at most one bar per
\* date, in ascending date order.
C26_ResultDedupedAscending ==
    \A th \in Threads :
        (Returned(th) /\ threads[th].result # None) =>
            AscendingTimes(threads[th].result.prices)

\* C30: when the cache was filled by get_prices calls only, every
\* get_prices call returns the provider's bars of its range, all of them.
C30_ReturnsEveryBarInRange ==
    ~cache_log.direct =>
        \A th \in Threads :
            Returned(th) =>
                /\ threads[th].result # None
                /\ threads[th].result.prices
                       = ProviderAnswer(threads[th].ticker, threads[th].start,
                                        threads[th].end)

====
